---- MODULE Spec2Model ----
(***************************************************************************)
(* Natural-language property search: the translation pipeline of           *)
(* OllamaLLMAdapter (generate, parse, validate, repair) and of             *)
(* SearchPropertyUseCase.execute, as a state machine.                      *)
(*                                                                         *)
(* A Python str is modelled as a sequence of one-character strings, so     *)
(* that strip(), upper(), startswith() and the `in` substring test are     *)
(* computed character by character, as the interpreter computes them.      *)
(***************************************************************************)
EXTENDS Integers, Sequences, FiniteSets, TLC

(***************************************************************************)
(* Characters and the str methods the code uses.                           *)
(***************************************************************************)
LowerLetters == <<"a", "b", "c", "d", "e", "f", "g", "h", "i", "j", "k", "l", "m", "n", "o", "p", "q", "r", "s", "t", "u", "v", "w", "x", "y", "z">>
UpperLetters == <<"A", "B", "C", "D", "E", "F", "G", "H", "I", "J", "K", "L", "M", "N", "O", "P", "Q", "R", "S", "T", "U", "V", "W", "X", "Y", "Z">>
Digits == {"0", "1", "2", "3", "4", "5", "6", "7", "8", "9"}

\* str.strip() without argument removes these (the ASCII whitespace).
Whitespace == {" ", "\n", "\t", "\r"}

\* \w of the re module: what a "whole token" is made of.
WordChars ==
  {LowerLetters[i] : i \in 1..Len(LowerLetters)} \cup
  {UpperLetters[i] : i \in 1..Len(UpperLetters)} \cup Digits \cup {"_"}

\* str.upper() on one character.
UpperChar(c) ==
  IF \E i \in 1..Len(LowerLetters) : LowerLetters[i] = c
  THEN UpperLetters[CHOOSE i \in 1..Len(LowerLetters) : LowerLetters[i] = c]
  ELSE c

\* str.upper()
Upper(s) == [i \in 1..Len(s) |-> UpperChar(s[i])]

\* str.lstrip() / str.rstrip() / str.strip() over a set of characters.
LStripSet(s, cs) ==
  IF \A i \in 1..Len(s) : s[i] \in cs THEN <<>>
  ELSE LET k == CHOOSE i \in 1..Len(s) :
                  s[i] \notin cs /\ \A j \in 1..(i - 1) : s[j] \in cs
       IN SubSeq(s, k, Len(s))

RStripSet(s, cs) ==
  IF \A i \in 1..Len(s) : s[i] \in cs THEN <<>>
  ELSE LET k == CHOOSE i \in 1..Len(s) :
                  s[i] \notin cs /\ \A j \in (i + 1)..Len(s) : s[j] \in cs
       IN SubSeq(s, 1, k)

Strip(s) == RStripSet(LStripSet(s, Whitespace), Whitespace)

\* str.startswith(p), str.endswith(p), `p in s`
StartsWith(s, p) == Len(s) >= Len(p) /\ SubSeq(s, 1, Len(p)) = p

EndsWith(s, p) ==
  Len(s) >= Len(p) /\ SubSeq(s, Len(s) - Len(p) + 1, Len(s)) = p

Contains(s, p) ==
  \E i \in 1..(Len(s) - Len(p) + 1) : SubSeq(s, i, i + Len(p) - 1) = p

(***************************************************************************)
(* _parse_markdown_response: the clean-up of the WHERE fragment and the    *)
(* assembly of the complete statement.  The fenced-block extraction that   *)
(* precedes them is ParseResponseText below.                               *)
(***************************************************************************)
\* re.sub(r'^WHERE\s+', '', where_clause, flags=re.IGNORECASE)
StripWhereKeyword(s) ==
  IF /\ StartsWith(Upper(s), <<"W", "H", "E", "R", "E">>)
     /\ Len(s) > 5
     /\ s[6] \in Whitespace
  THEN LStripSet(SubSeq(s, 6, Len(s)), Whitespace)
  ELSE s

\* re.sub(r'^(?:sql|mysql|SQL|MYSQL)?\s*', '', where_clause, flags=re.IGNORECASE)
StripDialectPrefix(s) ==
  LET rest == IF StartsWith(Upper(s), <<"S", "Q", "L">>) THEN SubSeq(s, 4, Len(s))
              ELSE IF StartsWith(Upper(s), <<"M", "Y", "S", "Q", "L">>) THEN SubSeq(s, 6, Len(s))
              ELSE s
  IN LStripSet(rest, Whitespace)

\* where_clause[:-3].strip() when the fragment ends with a fence
StripTrailingFence(s) ==
  IF EndsWith(s, <<"BACKTICK", "BACKTICK", "BACKTICK">>) THEN Strip(SubSeq(s, 1, Len(s) - 3)) ELSE s

\* "Clean up WHERE clause": the five statements, in the order of the code.
CleanWhere(block) ==
  LET w1 == Strip(block)
      w2 == StripWhereKeyword(w1)
      w3 == StripDialectPrefix(w2)
      w4 == Strip(RStripSet(w3, {";"}))
  IN StripTrailingFence(w4)

\* The fixed skeleton around the fragment.  The rest of the projection list,
\* the two LEFT JOIN lines and the ORDER BY line are elided: they hold no
\* placeholder, no semicolon, no comment marker and none of the dangerous
\* keywords, and the statement still begins with "SELECT ", puts "WHERE "
\* before the fragment and a newline after it.
SkeletonHead == <<"S", "E", "L", "E", "C", "T", " ", "\n", " ", " ", "p", "r", "o", "p", "i", "e", "d", "a", "d", "e", "s", ".", "i", "d", "\n", "F", "R", "O", "M", " ", "p", "r", "o", "p", "i", "e", "d", "a", "d", "e", "s", "\n", "W", "H", "E", "R", "E", " ">>

SkeletonTail == <<"\n", "G", "R", "O", "U", "P", " ", "B", "Y", " ", "p", "r", "o", "p", "i", "e", "d", "a", "d", "e", "s", ".", "i", "d">>

\* Variant: the fragment is returned without the skeleton.
complete_sql_without_skeleton(where_clause) == where_clause

complete_sql(where_clause) == SkeletonHead \o where_clause \o SkeletonTail

\* What _parse_markdown_response returns for a WHERE block and a params block.
parse_markdown_response(block, params) ==
  [sql |-> complete_sql(CleanWhere(block)), params |-> params]

(***************************************************************************)
(* _parse_markdown_response: from the raw text of the generator to the     *)
(* blocks, the params and the WHERE block.  Offsets are 0-based, as        *)
(* match.start() and str.rfind() give them; -1 is "not found".             *)
(***************************************************************************)
\* str.lower()
LowerChar(c) ==
  IF \E i \in 1..Len(UpperLetters) : UpperLetters[i] = c
  THEN LowerLetters[CHOOSE i \in 1..Len(UpperLetters) : UpperLetters[i] = c]
  ELSE c

Lower(s) == [i \in 1..Len(s) |-> LowerChar(s[i])]

\* p occurs in s at the 0-based offset k
OccursAt(s, p, k) == k >= 0 /\ k + Len(p) <= Len(s) /\ SubSeq(s, k + 1, k + Len(p)) = p

\* s.find(p, from) and s.rfind(p)
Find(s, p, from) ==
  LET hits == {k \in from..(Len(s) - Len(p)) : OccursAt(s, p, k)}
  IN IF hits = {} THEN -1 ELSE CHOOSE k \in hits : \A j \in hits : k <= j

RFind(s, p) ==
  LET hits == {k \in 0..(Len(s) - Len(p)) : OccursAt(s, p, k)}
  IN IF hits = {} THEN -1 ELSE CHOOSE k \in hits : \A j \in hits : k >= j

\* s[a:b] of Python, 0 <= a
Slice(s, a, b) == IF b <= a THEN <<>> ELSE SubSeq(s, a + 1, b)

Fence == <<"BACKTICK", "BACKTICK", "BACKTICK">>

NoMatch == [found |-> FALSE, content |-> <<>>, start |-> -1, end |-> -1]

\* code_block_pattern = r'```[^\n]*\n?(.*?)\n?```' with re.DOTALL, tried at
\* offset i.  [^\n]* is greedy: it takes the rest of the line, and the
\* block is what lies between the end of that line and the next fence, less
\* one newline before the fence.  Only when no fence follows the line does
\* it give characters back, and then the match ends at the last fence of
\* the line and the block is empty.
MatchCodeBlockAt(s, i) ==
  IF ~OccursAt(s, Fence, i) THEN NoMatch
  ELSE LET q == Find(s, <<"\n">>, i + 3)
           f == IF q >= 0 THEN Find(s, Fence, q + 1) ELSE -1
           lineend == IF q >= 0 THEN q ELSE Len(s)
           inline == {k \in (i + 3)..(lineend - 3) : OccursAt(s, Fence, k)}
       IN IF f >= 0
          THEN LET c == q + 1
                   e == IF f - 1 >= c /\ s[f] = "\n" THEN f - 1 ELSE f
               IN [found |-> TRUE, content |-> Slice(s, c, e), start |-> i,
                   end |-> f + 3]
          ELSE IF inline # {}
          THEN [found |-> TRUE, content |-> <<>>, start |-> i,
                end |-> (CHOOSE k \in inline : \A j \in inline : k >= j) + 3]
          ELSE NoMatch

\* re.finditer: the matches from left to right, each search starting where
\* the previous match ended; each block keeps match.group(1).strip().  A
\* match can only start at a fence, so the scan moves from fence to fence.
RECURSIVE CodeBlocksFrom(_, _)
CodeBlocksFrom(s, i) ==
  LET n == Find(s, Fence, i)
  IN IF n < 0 THEN <<>>
     ELSE LET m == MatchCodeBlockAt(s, n)
          IN IF m.found
             THEN << [content |-> Strip(m.content), start |-> m.start, end |-> m.end] >>
                  \o CodeBlocksFrom(s, m.end)
             ELSE CodeBlocksFrom(s, n + 1)

code_blocks_of(response_text) == CodeBlocksFrom(response_text, 0)

answer_start_marker == <<"Y", "O", "U", "R", " ", "R", "E", "S", "P", "O", "N", "S", "E">>

user_query_marker == <<"U", "s", "e", "r", " ", "q", "u", "e", "r", "y", ":">>

\* last_marker_pos: 0 when neither marker occurs.
last_marker_pos_of(response_text) ==
  IF Contains(response_text, answer_start_marker)
  THEN RFind(response_text, answer_start_marker)
  ELSE IF Contains(response_text, user_query_marker)
  THEN RFind(response_text, user_query_marker)
  ELSE 0

\* b[-3:]
LastThree(blocks) ==
  IF Len(blocks) >= 3 THEN SubSeq(blocks, Len(blocks) - 2, Len(blocks)) ELSE blocks

\* [b for b in code_blocks if b['start'] > last_marker_pos]
RECURSIVE BlocksAfter(_, _)
BlocksAfter(blocks, pos) ==
  IF blocks = <<>> THEN <<>>
  ELSE (IF Head(blocks).start > pos THEN <<Head(blocks)>> ELSE <<>>)
       \o BlocksAfter(Tail(blocks), pos)

\* if not response_blocks: response_blocks = code_blocks  # Fallback to all
FallbackToAll(filtered, code_blocks) ==
  IF filtered = <<>> THEN code_blocks ELSE filtered

\* The filter: the blocks after the marker, or the last three blocks when
\* last_marker_pos is not > 0.
FilterByMarker(code_blocks, last_marker_pos) ==
  IF last_marker_pos > 0
  THEN BlocksAfter(code_blocks, last_marker_pos)
  ELSE LastThree(code_blocks)

response_blocks_of(code_blocks, last_marker_pos) ==
  FallbackToAll(FilterByMarker(code_blocks, last_marker_pos), code_blocks)

(***************************************************************************)
(* json.loads on a params block.  The arrays of the inputs hold integers,  *)
(* so the value grammar is: whitespace, "[", integers separated by commas, *)
(* "]", whitespace.  Everything else is a JSONDecodeError here.            *)
(***************************************************************************)
DigitChars == <<"0", "1", "2", "3", "4", "5", "6", "7", "8", "9">>

DigitValue(c) == (CHOOSE i \in 1..Len(DigitChars) : DigitChars[i] = c) - 1

IsDigit(c) == \E i \in 1..Len(DigitChars) : DigitChars[i] = c

\* an unsigned JSON integer: digits, no leading zero
IsJsonInt(t) ==
  /\ Len(t) >= 1
  /\ \A i \in 1..Len(t) : IsDigit(t[i])
  /\ (Len(t) > 1 => t[1] # "0")

RECURSIVE JsonIntValue(_)
JsonIntValue(t) ==
  IF t = <<>> THEN 0
  ELSE 10 * JsonIntValue(SubSeq(t, 1, Len(t) - 1)) + DigitValue(t[Len(t)])

\* the pieces of t between the commas
RECURSIVE SplitCommas(_)
SplitCommas(t) ==
  LET k == Find(t, <<",">>, 0)
  IN IF k < 0 THEN <<t>>
     ELSE <<Slice(t, 0, k)>> \o SplitCommas(Slice(t, k + 1, Len(t)))

JsonError == [ok |-> FALSE, value |-> <<>>]

JsonLoads(s) ==
  LET t == Strip(s)
  IN IF Len(t) < 2 \/ t[1] # "[" \/ t[Len(t)] # "]" THEN JsonError
     ELSE LET inner == Strip(Slice(t, 1, Len(t) - 1))
              parts == SplitCommas(inner)
              items == [i \in 1..Len(parts) |-> Strip(parts[i])]
          IN IF inner = <<>> THEN [ok |-> TRUE, value |-> <<>>]
             ELSE IF \A i \in 1..Len(items) : IsJsonInt(items[i])
             THEN [ok |-> TRUE,
                   value |-> [i \in 1..Len(items) |-> JsonIntValue(items[i])]]
             ELSE JsonError

(***************************************************************************)
(* Step 1: the JSON parameters.                                            *)
(***************************************************************************)
ParamsNotFound == [found |-> FALSE, idx |-> -1, params |-> <<>>]

\* The first loop: block.startswith('[') and json.loads(block) succeeds.
StrictCandidate(block) ==
  StartsWith(block.content, <<"[">>) /\ JsonLoads(block.content).ok

\* The lenient loop: block.strip(), rstrip(','), strip(), one more trailing
\* comma removed, then json.loads.
LenientText(content) ==
  LET b == Strip(content)
      fixed == Strip(RStripSet(b, {","}))
  IN IF EndsWith(fixed, <<",">>) THEN SubSeq(fixed, 1, Len(fixed) - 1) ELSE fixed

LenientCandidate(block) ==
  StartsWith(Strip(block.content), <<"[">>) /\ JsonLoads(LenientText(block.content)).ok

\* The smallest index of a set of indices, 0-based, or -1.
FirstOf(hits) ==
  IF hits = {} THEN -1 ELSE (CHOOSE i \in hits : \A j \in hits : i <= j) - 1

FirstStrict(blocks) == FirstOf({i \in 1..Len(blocks) : StrictCandidate(blocks[i])})

FirstLenient(blocks) == FirstOf({i \in 1..Len(blocks) : LenientCandidate(blocks[i])})

ParamsAt(blocks, idx, lenient) ==
  [found |-> TRUE, idx |-> idx,
   params |-> JsonLoads(IF lenient THEN LenientText(blocks[idx + 1].content)
                        ELSE blocks[idx + 1].content).value]

\* params and params_block_idx: the first block that parses as it is; only
\* when no block does, the first block that parses after the repair.
ResolveParams(response_blocks) ==
  IF FirstStrict(response_blocks) >= 0
  THEN ParamsAt(response_blocks, FirstStrict(response_blocks), FALSE)
  ELSE IF FirstLenient(response_blocks) >= 0
  THEN ParamsAt(response_blocks, FirstLenient(response_blocks), TRUE)
  ELSE ParamsNotFound

(***************************************************************************)
(* Step 2: the WHERE clause.                                               *)
(***************************************************************************)
\* the offset after the whitespace run that starts at k
RECURSIVE SkipWhitespace(_, _)
SkipWhitespace(s, k) ==
  IF k < Len(s) /\ s[k + 1] \in Whitespace THEN SkipWhitespace(s, k + 1) ELSE k

\* Variant: only the end of the text ends the fragment.
TerminatorAtEndOnly(s, k) == k = Len(s)

\* (?:\s+GROUP\s+BY|\s+ORDER\s+BY|\s+LIMIT|$) matches at offset k ($ also
\* matches before a final newline).
TerminatorAt(s, k) ==
  LET U == Upper(s)
      j == SkipWhitespace(s, k)
      by(w) == /\ OccursAt(U, w, j)
               /\ SkipWhitespace(s, j + 5) > j + 5
               /\ OccursAt(U, <<"B", "Y">>, SkipWhitespace(s, j + 5))
  IN \/ k = Len(s)
     \/ (k = Len(s) - 1 /\ s[k + 1] = "\n")
     \/ (j > k /\ (OccursAt(U, <<"L", "I", "M", "I", "T">>, j) \/ by(<<"G", "R", "O", "U", "P">>) \/ by(<<"O", "R", "D", "E", "R">>)))

NoWhere == [set |-> FALSE, val |-> <<>>]

\* where_clause as the loops leave it, with the case that assigned it and
\* the index of the block it was taken from.
Resolved(w, rule, idx) == [set |-> w.set, val |-> w.val, rule |-> rule, idx |-> idx]

NoFragment == Resolved(NoWhere, "none", -1)

\* _extract_where_from_full_sql: re.search of
\* r'WHERE\s+(.*?)(?:\s+GROUP\s+BY|\s+ORDER\s+BY|\s+LIMIT|$)' with
\* IGNORECASE | DOTALL; match.group(1).strip(), or None.
extract_where_from_full_sql(full_sql) ==
  LET U == Upper(full_sql)
      starts == {i \in 0..(Len(full_sql) - 5) :
                   OccursAt(U, <<"W", "H", "E", "R", "E">>, i) /\ SkipWhitespace(full_sql, i + 5) > i + 5}
  IN IF starts = {} THEN NoWhere
     ELSE LET i == CHOOSE x \in starts : \A y \in starts : x <= y
              j == SkipWhitespace(full_sql, i + 5)
              ends == {k \in j..Len(full_sql) : TerminatorAt(full_sql, k)}
              k == CHOOSE x \in ends : \A y \in ends : x <= y
          IN [set |-> TRUE, val |-> Strip(Slice(full_sql, j, k))]

is_full_sql(text) ==
  LET text_upper == Upper(text)
  IN Contains(text_upper, <<"S", "E", "L", "E", "C", "T">>) /\ Contains(text_upper, <<"F", "R", "O", "M">>)
     /\ Contains(text_upper, <<"W", "H", "E", "R", "E">>)

is_only_where_clause(text) ==
  LET text_upper == Upper(text)
      has_where_keywords ==
        /\ ~Contains(text_upper, <<"W", "H", "E", "R", "E">>)
        /\ \/ Contains(text, <<"%", "s">>)
           \/ Contains(text, <<"p", "r", "o", "p", "i", "e", "d", "a", "d", "e", "s">>)
           \/ Contains(text_upper, <<"A", "N", "D">>)
           \/ Contains(text_upper, <<"O", "R">>)
  IN has_where_keywords
     /\ ~(Contains(text_upper, <<"S", "E", "L", "E", "C", "T">>) \/ Contains(text_upper, <<"F", "R", "O", "M">>))

\* The loop over response_blocks from index i (0-based) with where_clause
\* as it stands (acc): cases 1 and 3 assign the extraction and break only
\* when it is truthy, case 2 assigns the block and breaks.
RECURSIVE WhereLoop(_, _, _, _)
WhereLoop(blocks, params_block_idx, i, acc) ==
  IF i >= Len(blocks) THEN acc
  ELSE IF i = params_block_idx THEN WhereLoop(blocks, params_block_idx, i + 1, acc)
  ELSE LET block == blocks[i + 1].content
           ex == extract_where_from_full_sql(block)
       IN IF is_full_sql(block)
          THEN IF ex.set /\ ex.val # <<>> THEN Resolved(ex, "full statement", i)
               ELSE WhereLoop(blocks, params_block_idx, i + 1,
                              Resolved(ex, "full statement", i))
          ELSE IF is_only_where_clause(block)
          THEN Resolved([set |-> TRUE, val |-> block], "fragment only", i)
          ELSE IF Contains(Upper(block), <<"W", "H", "E", "R", "E">>)
          THEN IF ex.set /\ ex.val # <<>> THEN Resolved(ex, "where keyword", i)
               ELSE WhereLoop(blocks, params_block_idx, i + 1,
                              Resolved(ex, "where keyword", i))
          ELSE WhereLoop(blocks, params_block_idx, i + 1, acc)

\* "Last resort": the first block, not the params block, that mentions
\* propiedades or holds a placeholder.
LastResort(blocks, params_block_idx) ==
  LET hits == {i \in 0..(Len(blocks) - 1) :
                 /\ i # params_block_idx
                 /\ \/ Contains(Lower(blocks[i + 1].content), <<"p", "r", "o", "p", "i", "e", "d", "a", "d", "e", "s">>)
                    \/ Contains(blocks[i + 1].content, <<"%", "s">>)}
  IN IF hits = {} THEN NoFragment
     ELSE LET first == CHOOSE i \in hits : \A j \in hits : i <= j
          IN Resolved([set |-> TRUE, val |-> blocks[first + 1].content],
                      "last resort", first)

ResolveWhere(response_blocks, params_block_idx) ==
  LET w == WhereLoop(response_blocks, params_block_idx, 0, NoFragment)
  IN IF w.set THEN w ELSE LastResort(response_blocks, params_block_idx)

\* _parse_markdown_response up to the clean-up: the error it raises (""
\* when none), the params and the WHERE block it resolves.
ParseResponseText(response_text) ==
  LET code_blocks == code_blocks_of(response_text)
      response_blocks ==
        response_blocks_of(code_blocks, last_marker_pos_of(response_text))
      p == ResolveParams(response_blocks)
      w == ResolveWhere(response_blocks, p.idx)
  IN IF code_blocks = <<>>
     THEN [error |-> "LLM response missing code blocks", block |-> <<>>, params |-> <<>>]
     ELSE IF ~p.found
     THEN [error |-> "LLM response missing parameters", block |-> <<>>, params |-> <<>>]
     ELSE IF ~w.set
     THEN [error |-> "Could not extract WHERE clause from LLM response",
           block |-> <<>>, params |-> <<>>]
     ELSE [error |-> "", block |-> w.val, params |-> p.params]

(***************************************************************************)
(* Raw texts of the generator, put together from pieces: an answer (a      *)
(* WHERE block and a params block), single blocks (fragments, full         *)
(* statements, params), a fence that is never closed, and the two markers. *)
(***************************************************************************)
PieceNames == {"A", "W2", "P2", "P5", "PC", "PB", "FS", "FX", "FG", "F", "M", "U"}

PieceText(name) ==
  CASE name = "A" -> <<"BACKTICK", "BACKTICK", "BACKTICK", "s", "q", "l", "\n", "p", "r", "e", "c", "i", "o", " ", "<", " ", "%", "s", "\n", "BACKTICK", "BACKTICK", "BACKTICK", "\n", "BACKTICK", "BACKTICK", "BACKTICK", "j", "s", "o", "n", "\n", "[", "5", "0", "0", "0", "0", "0", "]", "\n", "BACKTICK", "BACKTICK", "BACKTICK", "\n">>
    [] name = "W2" -> <<"BACKTICK", "BACKTICK", "BACKTICK", "\n", "z", "o", "n", "a", " ", "=", " ", "%", "s", "\n", "BACKTICK", "BACKTICK", "BACKTICK", "\n">>
    [] name = "P2" -> <<"BACKTICK", "BACKTICK", "BACKTICK", "j", "s", "o", "n", "\n", "[", "2", "]", "\n", "BACKTICK", "BACKTICK", "BACKTICK", "\n">>
    [] name = "PC" -> <<"BACKTICK", "BACKTICK", "BACKTICK", "j", "s", "o", "n", "\n", "[", "7", "]", ",", "\n", "BACKTICK", "BACKTICK", "BACKTICK", "\n">>
    [] name = "PB" -> <<"BACKTICK", "BACKTICK", "BACKTICK", "\n", "[", "o", "o", "p", "s", "\n", "BACKTICK", "BACKTICK", "BACKTICK", "\n">>
    [] name = "FS" -> <<"BACKTICK", "BACKTICK", "BACKTICK", "s", "q", "l", "\n", "S", "E", "L", "E", "C", "T", " ", "*", " ", "F", "R", "O", "M", " ", "p", "r", "o", "p", "i", "e", "d", "a", "d", "e", "s", " ", "W", "H", "E", "R", "E", " ", "t", "i", "p", "o", " ", "=", " ", "%", "s", " ", "O", "R", "D", "E", "R", " ", "B", "Y", " ", "p", "r", "e", "c", "i", "o", "\n", "BACKTICK", "BACKTICK", "BACKTICK", "\n">>
    [] name = "FX" -> <<"BACKTICK", "BACKTICK", "BACKTICK", "s", "q", "l", "\n", "S", "E", "L", "E", "C", "T", " ", "*", " ", "F", "R", "O", "M", " ", "p", "r", "o", "p", "i", "e", "d", "a", "d", "e", "s", " ", "W", "H", "E", "R", "E", " ", "p", "r", "e", "c", "i", "o", " ", "<", " ", "%", "s", "\n", "BACKTICK", "BACKTICK", "BACKTICK", "\n">>
    [] name = "FG" -> <<"BACKTICK", "BACKTICK", "BACKTICK", "s", "q", "l", "\n", "s", "e", "l", "e", "c", "t", " ", "i", "d", "\n", "f", "r", "o", "m", " ", "p", "r", "o", "p", "i", "e", "d", "a", "d", "e", "s", "\n", "w", "h", "e", "r", "e", " ", "z", "o", "n", "a", " ", "=", " ", "%", "s", "\n", "g", "r", "o", "u", "p", " ", "b", "y", " ", "i", "d", " ", "l", "i", "m", "i", "t", " ", "5", "\n", "BACKTICK", "BACKTICK", "BACKTICK", "\n">>
    [] name = "P5" -> <<"BACKTICK", "BACKTICK", "BACKTICK", "j", "s", "o", "n", "\n", "[", "5", "0", "0", "0", "0", "0", "]", "\n", "BACKTICK", "BACKTICK", "BACKTICK", "\n">>
    [] name = "F" -> <<"BACKTICK", "BACKTICK", "BACKTICK", "s", "q", "l", "\n">>
    [] name = "M" -> <<"Y", "O", "U", "R", " ", "R", "E", "S", "P", "O", "N", "S", "E", ":", "\n">>
    [] name = "U" -> <<"U", "s", "e", "r", " ", "q", "u", "e", "r", "y", ":", " ", "c", "a", "s", "a", "\n">>

\* The most pieces a raw text is put together from.
MaxPieces == 3

RECURSIVE RawOf(_)
RawOf(names) ==
  IF names = <<>> THEN <<>> ELSE PieceText(Head(names)) \o RawOf(Tail(names))

PieceSeqs == UNION {[1..n -> PieceNames] : n \in 0..MaxPieces}

(***************************************************************************)
(* validate_sql_template: one pass of the checks inside the try block.     *)
(***************************************************************************)
max_retries == 3

dangerous_keywords ==
  << <<"D", "R", "O", "P">>, <<"D", "E", "L", "E", "T", "E">>, <<"U", "P", "D", "A", "T", "E">>, <<"I", "N", "S", "E", "R", "T">>, <<"C", "R", "E", "A", "T", "E">>, <<"A", "L", "T", "E", "R">>, <<"E", "X", "E", "C">>,
     <<"E", "X", "E", "C", "U", "T", "E">>, <<"T", "R", "U", "N", "C", "A", "T", "E">> >>

\* if f" {keyword} " in f" {sql_upper} "
KeywordDetected(sql_upper, keyword) ==
  Contains(<<" ">> \o sql_upper \o <<" ">>, <<" ">> \o keyword \o <<" ">>)

Safe == [safe |-> TRUE, reason |-> "", keyword |-> <<>>]

Unsafe(reason, keyword) == [safe |-> FALSE, reason |-> reason, keyword |-> keyword]

\* Checks 2 and 3 on sql_upper; the first keyword of the list that is found
\* is the one reported.
RunChecks(sql_upper) ==
  LET hits == {k \in 1..Len(dangerous_keywords) :
                 KeywordDetected(sql_upper, dangerous_keywords[k])}
  IN IF ~StartsWith(sql_upper, <<"S", "E", "L", "E", "C", "T">>)
     THEN Unsafe("Only SELECT queries are allowed", <<>>)
     ELSE IF hits # {}
     THEN Unsafe("Dangerous SQL keyword detected",
                 dangerous_keywords[CHOOSE k \in hits : \A j \in hits : k <= j])
     ELSE Safe

(***************************************************************************)
(* Inputs: the queries a caller sends and the answers the generator gives. *)
(***************************************************************************)
Queries == { <<>>, <<" ", " ">>, <<"c", "a", "s", "a">>, <<"p", "i", "s", "o">> }

\* The texts the generator answers with: a WHERE block and a JSON params
\* block, a text with no fenced block, and a text with no params block.
GeneratorTexts ==
  { <<"BACKTICK", "BACKTICK", "BACKTICK", "s", "q", "l", "\n", "p", "r", "e", "c", "i", "o", " ", "<", " ", "%", "s", "\n", "BACKTICK", "BACKTICK", "BACKTICK", "\n", "BACKTICK", "BACKTICK", "BACKTICK", "j", "s", "o", "n", "\n", "[", "5", "0", "0", "0", "0", "0", "]", "\n", "BACKTICK", "BACKTICK", "BACKTICK", "\n">>,
    <<"BACKTICK", "BACKTICK", "BACKTICK", "s", "q", "l", "\n", "W", "H", "E", "R", "E", " ", "p", "r", "e", "c", "i", "o", " ", "<", " ", "%", "s", ";", "\n", "BACKTICK", "BACKTICK", "BACKTICK", "\n", "BACKTICK", "BACKTICK", "BACKTICK", "j", "s", "o", "n", "\n", "[", "5", "0", "0", "0", "0", "0", "]", "\n", "BACKTICK", "BACKTICK", "BACKTICK", "\n">>,
    <<"BACKTICK", "BACKTICK", "BACKTICK", "s", "q", "l", "\n", "p", "r", "e", "c", "i", "o", " ", "<", " ", "%", "s", " ", "A", "N", "D", " ", "z", "o", "n", "a", " ", "=", " ", "%", "s", "\n", "BACKTICK", "BACKTICK", "BACKTICK", "\n", "BACKTICK", "BACKTICK", "BACKTICK", "j", "s", "o", "n", "\n", "[", "5", "0", "0", "0", "0", "0", "]", "\n", "BACKTICK", "BACKTICK", "BACKTICK", "\n">>,
    <<"BACKTICK", "BACKTICK", "BACKTICK", "s", "q", "l", "\n", "p", "r", "e", "c", "i", "o", " ", "<", " ", "%", "s", ";", " ", "D", "R", "O", "P", " ", "T", "A", "B", "L", "E", " ", "p", "r", "o", "p", "i", "e", "d", "a", "d", "e", "s", ";", "\n", "BACKTICK", "BACKTICK", "BACKTICK", "\n", "BACKTICK", "BACKTICK", "BACKTICK", "j", "s", "o", "n", "\n", "[", "5", "0", "0", "0", "0", "0", "]", "\n", "BACKTICK", "BACKTICK", "BACKTICK", "\n">>,
    <<"BACKTICK", "BACKTICK", "BACKTICK", "s", "q", "l", "\n", "p", "r", "e", "c", "i", "o", " ", "<", " ", "%", "s", "\n", "D", "R", "O", "P", " ", "T", "A", "B", "L", "E", " ", "p", "r", "o", "p", "i", "e", "d", "a", "d", "e", "s", "\n", "BACKTICK", "BACKTICK", "BACKTICK", "\n", "BACKTICK", "BACKTICK", "BACKTICK", "j", "s", "o", "n", "\n", "[", "5", "0", "0", "0", "0", "0", "]", "\n", "BACKTICK", "BACKTICK", "BACKTICK", "\n">>,
    <<"BACKTICK", "BACKTICK", "BACKTICK", "s", "q", "l", "\n", "z", "o", "n", "a", " ", "=", " ", "%", "s", " ", "O", "R", " ", "d", "e", "l", "e", "t", "e", " ", "f", "r", "o", "m", " ", "p", "r", "o", "p", "i", "e", "d", "a", "d", "e", "s", "\n", "BACKTICK", "BACKTICK", "BACKTICK", "\n", "BACKTICK", "BACKTICK", "BACKTICK", "j", "s", "o", "n", "\n", "[", "1", "0", "]", "\n", "BACKTICK", "BACKTICK", "BACKTICK", "\n">>,
    <<"BACKTICK", "BACKTICK", "BACKTICK", "s", "q", "l", "\n", "p", "r", "e", "c", "i", "o", " ", "<", " ", "%", "s", ";", " ", "S", "E", "L", "E", "C", "T", " ", "1", "\n", "BACKTICK", "BACKTICK", "BACKTICK", "\n", "BACKTICK", "BACKTICK", "BACKTICK", "j", "s", "o", "n", "\n", "[", "5", "0", "0", "0", "0", "0", "]", "\n", "BACKTICK", "BACKTICK", "BACKTICK", "\n">>,
    <<"BACKTICK", "BACKTICK", "BACKTICK", "s", "q", "l", "\n", "p", "r", "e", "c", "i", "o", " ", "<", " ", "%", "s", " ", "-", "-", " ", "b", "a", "r", "a", "t", "o", "\n", "BACKTICK", "BACKTICK", "BACKTICK", "\n", "BACKTICK", "BACKTICK", "BACKTICK", "j", "s", "o", "n", "\n", "[", "5", "0", "0", "0", "0", "0", "]", "\n", "BACKTICK", "BACKTICK", "BACKTICK", "\n">>,
    <<"N", "o", " ", "p", "u", "e", "d", "o", " ", "a", "y", "u", "d", "a", "r", " ", "c", "o", "n", " ", "e", "s", "o", ".">>,
    <<"BACKTICK", "BACKTICK", "BACKTICK", "s", "q", "l", "\n", "p", "r", "e", "c", "i", "o", " ", "<", " ", "%", "s", "\n", "BACKTICK", "BACKTICK", "BACKTICK", "\n">> }

\* No text came back from the POST.
NoResponse == <<"none">>

\* Variant: a text the parser rejects is taken whole as the WHERE block.
ResponseOfAnyText(text) ==
  LET p == ParseResponseText(Strip(text))
  IN [kind |-> "blocks", text |-> text, error |-> "",
      block |-> IF p.error # "" THEN Strip(text) ELSE p.block,
      params |-> p.params]

\* response.json().get("response", "").strip() and _parse_markdown_response:
\* the WHERE block and the params the text holds, or the parser's ValueError.
ResponseOf(text) ==
  LET p == ParseResponseText(Strip(text))
  IN IF p.error # ""
     THEN [kind |-> "unparseable", text |-> text, error |-> p.error,
           block |-> <<>>, params |-> <<>>]
     ELSE [kind |-> "blocks", text |-> text, error |-> "",
           block |-> p.block, params |-> p.params]

\* Every outcome of one POST to /api/generate followed by the parse: the
\* request fails (requests.RequestException: refused, timeout, HTTP error),
\* the text cannot be parsed (_parse_markdown_response raises ValueError),
\* or the text holds the two blocks.
LlmResponses ==
  { [kind |-> "connection_error", text |-> NoResponse, error |-> "",
      block |-> <<>>, params |-> <<>>] } \cup
  { ResponseOf(text) : text \in GeneratorTexts }

\* The most calls to the generator one request is followed for.
MaxCalls == 6

(***************************************************************************)
(* State.                                                                  *)
(***************************************************************************)
VARIABLES
  pc,              \* where the request is: idle, generating, validate, fixing, search, done
  query,           \* request.query of the request being served
  last_query,      \* OllamaLLMAdapter._last_query (<<"unset">>: attribute not set)
  sql_template,    \* execute(): the sql_template returned by the generator
  params,          \* execute(): the params returned by the generator
  current_sql,     \* validate_sql_template(): current_sql
  current_params,  \* validate_sql_template(): current_params
  attempt,         \* validate_sql_template(): the loop variable
  loop,            \* repair loop: none, Validating, Repairing, Succeeded, Exhausted, ReturnedFalse
  lastPass,        \* <<>> or <<[sql, params, verdict]>>: the latest validation pass of this request
  firstPass,       \* <<>> or << v >>: v the result of the first pass of this request
  prevRun,         \* <<>> or <<[sql, params, first, outcome]>>: the previous validate_sql_template call
  llmCalls,        \* POSTs to the generator in this request
  fixCalls,        \* _fix_sql_with_llm calls in this request
  inflight,        \* POSTs started and not yet returned
  unsafeCount,     \* unsafe verdicts in this request
  fix_query,       \* original_query of the latest correction prompt
  executed,        \* the (sql, params) pairs handed to property_repository.search
  response,        \* <<>> or <<the HTTP answer>>
  raised,          \* <<>> or <<[type, msg, cause]>>: the exception that left execute()
  response_text,   \* the text of the latest answer of the generator (NoResponse: none)
  passCount,       \* validation passes run in this request
  \* _parse_markdown_response followed step by step on one text
  parse_pc,        \* start, blocks, params, where, done
  pieces,          \* the pieces response_text is put together from
  code_blocks,     \* code_blocks
  last_marker_pos, \* last_marker_pos
  response_blocks, \* response_blocks
  params_block,    \* params and params_block_idx
  parsed,          \* <<>> or <<[error, sql, params, rule, idx]>>: what the parser returned or raised
  \* several requests on one adapter (last_query is the shared attribute)
  task_pc,         \* per request: idle, generating, validate, fixing, search, done
  task_query,      \* per request: request.query
  task_sql,        \* per request: current_sql
  task_params,     \* per request: current_params
  task_attempt,    \* per request: the loop variable
  task_fix_query,  \* per request: original_query of its latest correction prompt
  \* app.main: the import of the module and the lifespan of the application
  import_pc,       \* start, declared, app_created, imported: how far the module has run
  service_container, \* the global of main.py: undefined, None, ServiceContainer
  routes,          \* the paths registered on app
  lifespan_pc,     \* not_started, started, failed, stopped
  db_connected,    \* db_connection holds a live connection
  served           \* the answers given since startup: [path, status]

\* The state of the request followed in detail (last_query apart).
requestVars ==
  << pc, query, sql_template, params, current_sql, current_params, attempt,
     loop, lastPass, firstPass, prevRun, llmCalls, fixCalls, inflight,
     unsafeCount, fix_query, executed, response, raised, response_text,
     passCount >>

parseVars ==
  << parse_pc, pieces, code_blocks, last_marker_pos, response_blocks,
     params_block, parsed >>

taskVars ==
  << task_pc, task_query, task_sql, task_params, task_attempt, task_fix_query >>

appVars ==
  << import_pc, service_container, routes, lifespan_pc, db_connected, served >>

vars == << requestVars, last_query, parseVars, taskVars, appVars >>

\* The requests followed together on one adapter.
Tasks == {"A", "B"}

Unset == <<"unset">>

\* No request is being served.
RequestIdle ==
  /\ pc = "idle"
  /\ query = <<>>
  /\ sql_template = <<>>
  /\ params = <<>>
  /\ current_sql = <<>>
  /\ current_params = <<>>
  /\ attempt = 0
  /\ loop = "none"
  /\ lastPass = <<>>
  /\ firstPass = <<>>
  /\ prevRun = <<>>
  /\ llmCalls = 0
  /\ fixCalls = 0
  /\ inflight = 0
  /\ unsafeCount = 0
  /\ fix_query = <<>>
  /\ executed = <<>>
  /\ response = <<>>
  /\ raised = <<>>
  /\ response_text = NoResponse
  /\ passCount = 0

\* The parser is not being followed.
ParseIdle ==
  /\ parse_pc = "idle"
  /\ pieces = <<>>
  /\ code_blocks = <<>>
  /\ last_marker_pos = 0
  /\ response_blocks = <<>>
  /\ params_block = ParamsNotFound
  /\ parsed = <<>>

\* No request of Tasks has arrived.
TasksIdle ==
  /\ task_pc = [t \in Tasks |-> "idle"]
  /\ task_query = [t \in Tasks |-> <<>>]
  /\ task_sql = [t \in Tasks |-> <<>>]
  /\ task_params = [t \in Tasks |-> <<>>]
  /\ task_attempt = [t \in Tasks |-> 0]
  /\ task_fix_query = [t \in Tasks |-> <<>>]

\* app.main has not been imported.  The request is followed from the route
\* of create_search_router, whoever mounts it; what app.main itself
\* registers is followed in SpecApp.
AppIdle ==
  /\ import_pc = "start"
  /\ service_container = "undefined"
  /\ routes = {}
  /\ lifespan_pc = "not_started"
  /\ db_connected = FALSE
  /\ served = <<>>

Init ==
  /\ RequestIdle
  /\ last_query = Unset
  /\ ParseIdle
  /\ TasksIdle
  /\ AppIdle

\* An exception leaving execute().
Raised(type, msg, cause) == << [type |-> type, msg |-> msg, cause |-> cause] >>

\* Variant: every exception of the use case is answered as a server error.
HttpErrorAllServer(exc, detail, reason, keyword) ==
  [ status |-> 500, exc |-> exc, detail |-> detail, reason |-> reason,
    keyword |-> keyword, sql |-> <<>> ]

\* search_properties: what the route answers for an exception of the use case.
HttpError(exc, detail, reason, keyword) ==
  [ status |-> IF exc = "ValueError" THEN 400 ELSE 500,
    exc |-> exc,
    detail |-> IF exc = "ValueError" THEN detail
               ELSE "Failed to process search request. Check server logs.",
    reason |-> IF exc = "ValueError" THEN reason ELSE "",
    keyword |-> IF exc = "ValueError" THEN keyword ELSE <<>>,
    sql |-> <<>> ]

HttpOk(sql) ==
  [ status |-> 200, exc |-> "", detail |-> "", reason |-> "", keyword |-> <<>>,
    sql |-> sql ]

\* SearchRequest.query has min_length=1: the framework answers 422 itself.
HttpUnprocessable ==
  [ status |-> 422, exc |-> "RequestValidationError", detail |-> "",
    reason |-> "", keyword |-> <<>>, sql |-> <<>> ]

(***************************************************************************)
(* The request: search_properties -> SearchPropertyUseCase.execute ->      *)
(* generate_sql_with_params -> validate_sql_template (-> _fix_sql_with_llm)*)
(* -> property_repository.search.  requests.post blocks, so a call to the  *)
(* generator is a start step and a return step with nothing in between.    *)
(***************************************************************************)

\* Variant: only the empty string counts as empty.
QueryIsEmptyNoStrip(q) == q = <<>>

\* not request.query or not request.query.strip()
QueryIsEmpty(q) == q = <<>> \/ Strip(q) = <<>>

\* The route receives a request; execute() checks the query (step 1) and
\* generate_sql_with_params stores it and posts the generation prompt.
search_properties(q) ==
  /\ pc = "idle"
  /\ query' = q
  /\ IF Len(q) < 1
     THEN /\ response' = <<HttpUnprocessable>>
          /\ pc' = "done"
          /\ UNCHANGED << last_query, llmCalls, inflight, raised >>
     ELSE IF QueryIsEmpty(q)
     THEN /\ response' = <<HttpError("ValueError", "Query cannot be empty", "", <<>>)>>
          /\ raised' = Raised("ValueError", "Query cannot be empty", "")
          /\ pc' = "done"
          /\ UNCHANGED << last_query, llmCalls, inflight >>
     ELSE /\ last_query' = q
          /\ llmCalls' = llmCalls + 1
          /\ inflight' = inflight + 1
          /\ pc' = "generating"
          /\ UNCHANGED << response, raised >>
  /\ UNCHANGED << sql_template, params, current_sql, current_params, attempt,
                  loop, lastPass, firstPass, prevRun, fixCalls, unsafeCount,
                  fix_query, executed, response_text, passCount >>
  /\ UNCHANGED << parseVars, taskVars, appVars >>

\* The generation POST returns.  On a parsed answer execute() keeps the pair
\* as (sql_template, params) and validate_sql_template starts on it.
generate_sql_with_params(r) ==
  /\ pc = "generating"
  /\ inflight' = inflight - 1
  /\ response_text' = r.text
  /\ IF r.kind = "blocks"
     THEN LET p == parse_markdown_response(r.block, r.params)
          IN /\ sql_template' = p.sql
             /\ params' = p.params
             /\ current_sql' = p.sql
             /\ current_params' = p.params
             /\ attempt' = 0
             /\ loop' = "Validating"
             /\ pc' = "validate"
             /\ UNCHANGED << response, raised >>
     ELSE \* RequestException, and the re-raised ValueError of the parser
          \* (caught by `except Exception`), both leave as RuntimeError.
          LET msg == IF r.kind = "connection_error"
                     THEN "Failed to connect to Ollama"
                     ELSE "Failed to generate SQL"
          IN /\ response' = <<HttpError("RuntimeError", msg, "", <<>>)>>
             /\ raised' = Raised("RuntimeError", msg, r.error)
             /\ pc' = "done"
             /\ UNCHANGED << sql_template, params, current_sql, current_params,
                             attempt, loop >>
  /\ UNCHANGED << query, last_query, lastPass, firstPass, prevRun, llmCalls,
                  fixCalls, unsafeCount, fix_query, executed, passCount >>
  /\ UNCHANGED << parseVars, taskVars, appVars >>

\* Variant: the verdict of the previous pass is reused instead of recomputed.
ValidationPassCached(sql, ps) ==
  IF lastPass # <<>> THEN lastPass[1].verdict ELSE RunChecks(Upper(Strip(sql)))

\* The body of the try block.  Check 1, text(current_sql), only wraps the
\* string (it looks for :name bind parameters and raises nothing for a str);
\* sql_upper = current_sql.strip().upper() and checks 2 and 3 decide.  The
\* params argument (ps) is read by no check.
ValidationPass(sql, ps) == RunChecks(Upper(Strip(sql)))

\* Variant: no pass ends the loop.
ChecksPassedNever(v) == FALSE

\* No check raised: logger.info(...) and return True.
ChecksPassed(v) == v.safe

\* Variant: the range ends one attempt early.
InRangeShort(a) == a < max_retries - 1

\* for attempt in range(max_retries)
InRange(a) == a < max_retries

\* Variant: the loop variable does not advance.
NextAttemptStuck(a) == a

\* the next value of the loop variable
NextAttempt(a) == a + 1

\* Variant: the last attempt is taken to be the one after the range.
IsLastAttemptOffByOne(a) == a = max_retries

\* if attempt == max_retries - 1
IsLastAttempt(a) == a = max_retries - 1

\* Variant: any failed correction ends the loop.
FixFailureEndsLoopAlways(a) == TRUE

\* except Exception as fix_error: if attempt == max_retries - 1
FixFailureEndsLoop(a) == a = max_retries - 1

\* One iteration of the loop up to the correction POST: the checks, and on
\* an unsafe verdict the except branch (raise on the last attempt, else
\* start _fix_sql_with_llm).  Past the range the function returns False and
\* execute() raises "Generated SQL template failed validation".
validate_sql_template ==
  /\ pc = "validate"
  /\ llmCalls < MaxCalls
  /\ IF ~InRange(attempt)
     THEN /\ loop' = "ReturnedFalse"
          /\ response' = <<HttpError("ValueError",
                            "Generated SQL template failed validation", "", <<>>)>>
          /\ raised' = Raised("ValueError",
                              "Generated SQL template failed validation", "")
          /\ pc' = "done"
          /\ UNCHANGED << lastPass, firstPass, llmCalls, fixCalls, inflight,
                          unsafeCount, fix_query, passCount >>
     ELSE LET v == ValidationPass(current_sql, current_params)
          IN /\ lastPass' = << [sql |-> current_sql, params |-> current_params,
                                verdict |-> v] >>
             /\ firstPass' = IF firstPass = <<>> THEN <<v>> ELSE firstPass
             /\ passCount' = passCount + 1
             /\ IF ChecksPassed(v)
                THEN /\ loop' = "Succeeded"
                     /\ pc' = "search"
                     /\ UNCHANGED << response, raised, llmCalls, fixCalls,
                                     inflight, unsafeCount, fix_query >>
                ELSE IF IsLastAttempt(attempt)
                THEN /\ loop' = "Exhausted"
                     /\ response' = <<HttpError("ValueError", "SQL validation failed",
                                                v.reason, v.keyword)>>
                     /\ raised' = Raised("ValueError", "SQL validation failed",
                                         v.reason)
                     /\ pc' = "done"
                     /\ unsafeCount' = unsafeCount + 1
                     /\ UNCHANGED << llmCalls, fixCalls, inflight, fix_query >>
                ELSE /\ loop' = "Repairing"
                     /\ fix_query' = last_query
                     /\ fixCalls' = fixCalls + 1
                     /\ llmCalls' = llmCalls + 1
                     /\ inflight' = inflight + 1
                     /\ unsafeCount' = unsafeCount + 1
                     /\ pc' = "fixing"
                     /\ UNCHANGED << response, raised >>
  /\ UNCHANGED << query, last_query, sql_template, params, current_sql,
                  current_params, attempt, prevRun, executed, response_text >>
  /\ UNCHANGED << parseVars, taskVars, appVars >>

\* The correction POST returns.  A parsed correction replaces the current
\* pair; a failed one (RuntimeError, caught at `except Exception as
\* fix_error`) leaves it, and the loop goes to its next iteration.
fix_sql_with_llm(r) ==
  /\ pc = "fixing"
  /\ inflight' = inflight - 1
  /\ response_text' = r.text
  /\ IF r.kind = "blocks"
     THEN LET p == parse_markdown_response(r.block, r.params)
          IN /\ current_sql' = p.sql
             /\ current_params' = p.params
             /\ attempt' = NextAttempt(attempt)
             /\ loop' = "Validating"
             /\ pc' = "validate"
             /\ UNCHANGED << response, raised >>
     ELSE IF FixFailureEndsLoop(attempt)
     THEN /\ loop' = "Exhausted"
          /\ response' = <<HttpError("ValueError",
                            "SQL validation failed and could not be fixed",
                            lastPass[1].verdict.reason, lastPass[1].verdict.keyword)>>
          /\ raised' = Raised("ValueError",
                              "SQL validation failed and could not be fixed",
                              lastPass[1].verdict.reason)
          /\ pc' = "done"
          /\ UNCHANGED << current_sql, current_params, attempt >>
     ELSE /\ attempt' = NextAttempt(attempt)
          /\ loop' = "Validating"
          /\ pc' = "validate"
          /\ UNCHANGED << current_sql, current_params, response, raised >>
  /\ UNCHANGED << query, last_query, sql_template, params, lastPass, firstPass,
                  prevRun, llmCalls, fixCalls, unsafeCount, fix_query, executed,
                  passCount >>
  /\ UNCHANGED << parseVars, taskVars, appVars >>

\* execute() step 4 and 5: the repository runs (sql_template, params), the
\* locals of execute(), and the response carries sql_template.
search(ok) ==
  /\ pc = "search"
  /\ executed' = Append(executed, [sql |-> sql_template, params |-> params])
  /\ response' = IF ok THEN <<HttpOk(sql_template)>>
                 ELSE <<HttpError("RuntimeError", "Failed to execute query", "", <<>>)>>
  /\ raised' = IF ok THEN <<>>
               ELSE Raised("RuntimeError", "Failed to execute query", "")
  /\ pc' = "done"
  /\ UNCHANGED << query, last_query, sql_template, params, current_sql,
                  current_params, attempt, loop, lastPass, firstPass, prevRun,
                  llmCalls, fixCalls, inflight, unsafeCount, fix_query,
                  response_text, passCount >>
  /\ UNCHANGED << parseVars, taskVars, appVars >>

\* The answer is sent; the adapter (a singleton of the container) goes on to
\* the next request with _last_query kept.
next_request ==
  /\ pc = "done"
  /\ pc' = "idle"
  /\ prevRun' = IF loop \in {"Succeeded", "Exhausted", "ReturnedFalse"}
                THEN << [sql |-> sql_template, params |-> params,
                         first |-> firstPass[1], outcome |-> loop] >>
                ELSE prevRun
  /\ query' = <<>>
  /\ sql_template' = <<>>
  /\ params' = <<>>
  /\ current_sql' = <<>>
  /\ current_params' = <<>>
  /\ attempt' = 0
  /\ loop' = "none"
  /\ lastPass' = <<>>
  /\ firstPass' = <<>>
  /\ llmCalls' = 0
  /\ fixCalls' = 0
  /\ inflight' = 0
  /\ unsafeCount' = 0
  /\ fix_query' = <<>>
  /\ executed' = <<>>
  /\ response' = <<>>
  /\ raised' = <<>>
  /\ response_text' = NoResponse
  /\ passCount' = 0
  /\ UNCHANGED last_query
  /\ UNCHANGED << parseVars, taskVars, appVars >>

Next ==
  \/ \E q \in Queries : search_properties(q)
  \/ \E r \in LlmResponses : generate_sql_with_params(r)
  \/ validate_sql_template
  \/ \E r \in LlmResponses : fix_sql_with_llm(r)
  \/ \E ok \in BOOLEAN : search(ok)
  \/ next_request

Spec == Init /\ [][Next]_vars

(***************************************************************************)
(* Several requests served by the one adapter of the container, each on    *)
(* its own task.  A request gives way to the others where it awaits: at    *)
(* `await ...generate_sql_with_params(...)`, at `await                     *)
(* self._fix_sql_with_llm(...)` (its arguments, among them                 *)
(* getattr(self, '_last_query', 'unknown'), are evaluated before the call) *)
(* and at `await ...search(...)`.  Each request has its own locals;        *)
(* last_query is the attribute of the adapter they all use.                *)
(***************************************************************************)
\* The answers the generator gives in this setting: a safe template, an
\* unsafe one, and no answer.
ConcResponses ==
  { r \in LlmResponses :
      \/ r.kind = "connection_error"
      \/ r.kind = "blocks" /\ r.block \in { <<"p", "r", "e", "c", "i", "o", " ", "<", " ", "%", "s">>,
                                            <<"p", "r", "e", "c", "i", "o", " ", "<", " ", "%", "s", ";", " ", "D", "R", "O", "P", " ", "T", "A", "B", "L", "E", " ", "p", "r", "o", "p", "i", "e", "d", "a", "d", "e", "s", ";">> } }

\* execute() step 1 and generate_sql_with_params up to the POST.
task_search_properties(t, q) ==
  /\ task_pc[t] = "idle"
  /\ task_query' = [task_query EXCEPT ![t] = q]
  /\ IF Len(q) < 1
     THEN /\ task_pc' = [task_pc EXCEPT ![t] = "done"]
          /\ UNCHANGED last_query
     ELSE IF QueryIsEmpty(q)
     THEN /\ task_pc' = [task_pc EXCEPT ![t] = "done"]
          /\ UNCHANGED last_query
     ELSE /\ last_query' = q
          /\ task_pc' = [task_pc EXCEPT ![t] = "generating"]
  /\ UNCHANGED << task_sql, task_params, task_attempt, task_fix_query >>
  /\ UNCHANGED << requestVars, parseVars, appVars >>

\* The generation POST of request t returns.
task_generate_sql_with_params(t, r) ==
  /\ task_pc[t] = "generating"
  /\ IF r.kind = "blocks"
     THEN LET p == parse_markdown_response(r.block, r.params)
          IN /\ task_sql' = [task_sql EXCEPT ![t] = p.sql]
             /\ task_params' = [task_params EXCEPT ![t] = p.params]
             /\ task_pc' = [task_pc EXCEPT ![t] = "validate"]
     ELSE /\ task_pc' = [task_pc EXCEPT ![t] = "done"]
          /\ UNCHANGED << task_sql, task_params >>
  /\ UNCHANGED << task_query, task_attempt, task_fix_query, last_query >>
  /\ UNCHANGED << requestVars, parseVars, appVars >>

\* One iteration of the loop of request t up to the correction POST.
task_validate_sql_template(t) ==
  /\ task_pc[t] = "validate"
  /\ LET v == ValidationPass(task_sql[t], task_params[t])
     IN IF ~InRange(task_attempt[t])
        THEN /\ task_pc' = [task_pc EXCEPT ![t] = "done"]
             /\ UNCHANGED task_fix_query
        ELSE IF ChecksPassed(v)
        THEN /\ task_pc' = [task_pc EXCEPT ![t] = "search"]
             /\ UNCHANGED task_fix_query
        ELSE IF IsLastAttempt(task_attempt[t])
        THEN /\ task_pc' = [task_pc EXCEPT ![t] = "done"]
             /\ UNCHANGED task_fix_query
        ELSE /\ task_fix_query' = [task_fix_query EXCEPT ![t] = last_query]
             /\ task_pc' = [task_pc EXCEPT ![t] = "fixing"]
  /\ UNCHANGED << task_query, task_sql, task_params, task_attempt, last_query >>
  /\ UNCHANGED << requestVars, parseVars, appVars >>

\* The correction POST of request t returns.
task_fix_sql_with_llm(t, r) ==
  /\ task_pc[t] = "fixing"
  /\ IF r.kind = "blocks"
     THEN LET p == parse_markdown_response(r.block, r.params)
          IN /\ task_sql' = [task_sql EXCEPT ![t] = p.sql]
             /\ task_params' = [task_params EXCEPT ![t] = p.params]
             /\ task_attempt' = [task_attempt EXCEPT ![t] = NextAttempt(@)]
             /\ task_pc' = [task_pc EXCEPT ![t] = "validate"]
     ELSE IF FixFailureEndsLoop(task_attempt[t])
     THEN /\ task_pc' = [task_pc EXCEPT ![t] = "done"]
          /\ UNCHANGED << task_sql, task_params, task_attempt >>
     ELSE /\ task_attempt' = [task_attempt EXCEPT ![t] = NextAttempt(@)]
          /\ task_pc' = [task_pc EXCEPT ![t] = "validate"]
          /\ UNCHANGED << task_sql, task_params >>
  /\ UNCHANGED << task_query, task_fix_query, last_query >>
  /\ UNCHANGED << requestVars, parseVars, appVars >>

\* execute() step 4 and 5 of request t.
task_search(t) ==
  /\ task_pc[t] = "search"
  /\ task_pc' = [task_pc EXCEPT ![t] = "done"]
  /\ UNCHANGED << task_query, task_sql, task_params, task_attempt,
                  task_fix_query, last_query >>
  /\ UNCHANGED << requestVars, parseVars, appVars >>

NextConc ==
  \/ \E t \in Tasks, q \in Queries : task_search_properties(t, q)
  \/ \E t \in Tasks, r \in ConcResponses : task_generate_sql_with_params(t, r)
  \/ \E t \in Tasks : task_validate_sql_template(t)
  \/ \E t \in Tasks, r \in ConcResponses : task_fix_sql_with_llm(t, r)
  \/ \E t \in Tasks : task_search(t)

SpecConc == Init /\ [][NextConc]_vars

(***************************************************************************)
(* _parse_markdown_response on one text, one step of the function at a     *)
(* time.                                                                   *)
(***************************************************************************)
InitParse ==
  /\ RequestIdle
  /\ last_query = Unset
  /\ TasksIdle
  /\ AppIdle
  /\ parse_pc = "start"
  /\ pieces \in PieceSeqs
  /\ code_blocks = <<>>
  /\ last_marker_pos = 0
  /\ response_blocks = <<>>
  /\ params_block = ParamsNotFound
  /\ parsed = <<>>

\* raise ValueError(msg)
ParseError(msg) ==
  << [error |-> msg, sql |-> <<>>, params |-> <<>>, rule |-> "none", idx |-> -1] >>

\* re.finditer over the text, `if not code_blocks: raise`, and the marker.
extract_code_blocks ==
  /\ parse_pc = "start"
  /\ code_blocks' = code_blocks_of(RawOf(pieces))
  /\ IF code_blocks' = <<>>
     THEN /\ parsed' = ParseError("LLM response missing code blocks")
          /\ parse_pc' = "done"
          /\ UNCHANGED last_marker_pos
     ELSE /\ last_marker_pos' = last_marker_pos_of(RawOf(pieces))
          /\ parse_pc' = "blocks"
          /\ UNCHANGED parsed
  /\ UNCHANGED << pieces, response_blocks, params_block >>
  /\ UNCHANGED << requestVars, last_query, taskVars, appVars >>

\* The filter on last_marker_pos and the fallback to all blocks.
filter_response_blocks ==
  /\ parse_pc = "blocks"
  /\ response_blocks' = response_blocks_of(code_blocks, last_marker_pos)
  /\ parse_pc' = "params"
  /\ UNCHANGED << pieces, code_blocks, last_marker_pos, params_block, parsed >>
  /\ UNCHANGED << requestVars, last_query, taskVars, appVars >>

\* Step 1: the two loops over response_blocks for the JSON parameters.
find_params ==
  /\ parse_pc = "params"
  /\ params_block' = ResolveParams(response_blocks)
  /\ IF ~params_block'.found
     THEN /\ parsed' = ParseError("LLM response missing parameters")
          /\ parse_pc' = "done"
     ELSE /\ parse_pc' = "where"
          /\ UNCHANGED parsed
  /\ UNCHANGED << pieces, code_blocks, last_marker_pos, response_blocks >>
  /\ UNCHANGED << requestVars, last_query, taskVars, appVars >>

\* Steps 2 to 4: the WHERE clause, its cleanup and the complete statement.
find_where ==
  /\ parse_pc = "where"
  /\ LET w == ResolveWhere(response_blocks, params_block.idx)
     IN parsed' =
          IF ~w.set
          THEN ParseError("Could not extract WHERE clause from LLM response")
          ELSE LET p == parse_markdown_response(w.val, params_block.params)
               IN << [error |-> "", sql |-> p.sql, params |-> p.params,
                      rule |-> w.rule, idx |-> w.idx] >>
  /\ parse_pc' = "done"
  /\ UNCHANGED << pieces, code_blocks, last_marker_pos, response_blocks,
                  params_block >>
  /\ UNCHANGED << requestVars, last_query, taskVars, appVars >>

NextParse ==
  \/ extract_code_blocks
  \/ filter_response_blocks
  \/ find_params
  \/ find_where

SpecParse == InitParse /\ [][NextParse]_vars

(***************************************************************************)
(* The request under the condition that every call returns: a started pass *)
(* of validate_sql_template runs (nothing suspends it), and requests.post  *)
(* returns or raises within its timeout.                                   *)
(***************************************************************************)
\* The step that ends a pass of the loop: from the position of
\* validate_sql_template Next allows no other step.
PassEnds ==
  /\ pc = "validate"
  /\ llmCalls < MaxCalls
  /\ pc' \in {"search", "done", "fixing"}

\* The step in which the correction POST returns or raises: from the
\* position of _fix_sql_with_llm Next allows no other step.
CorrectionReturns ==
  /\ pc = "fixing"
  /\ pc' \in {"validate", "done"}

SpecFair ==
  /\ Init
  /\ [][Next]_vars
  /\ WF_pc(PassEnds)
  /\ WF_pc(CorrectionReturns)


(***************************************************************************)
(* Vocabulary of the properties.                                           *)
(***************************************************************************)
\* The number of positional placeholders %s in a template.
PlaceholderCount(s) ==
  Cardinality({i \in 1..(Len(s) - 1) : s[i] = "%" /\ s[i + 1] = "s"})

\* kw occurs in s bounded on both sides by a non-word character or an end.
HasWholeToken(s, kw) ==
  \E i \in 1..(Len(s) - Len(kw) + 1) :
    /\ SubSeq(s, i, i + Len(kw) - 1) = kw
    /\ (i = 1 \/ s[i - 1] \notin WordChars)
    /\ (i + Len(kw) - 1 = Len(s) \/ s[i + Len(kw)] \notin WordChars)

HasSemicolon(s) == \E i \in 1..Len(s) : s[i] = ";"

HasCommentMarker(s) ==
  Contains(s, <<"-", "-">>) \/ Contains(s, <<"/", "*">>) \/ Contains(s, <<"*", "/">>)

Terminal == {"Succeeded", "Exhausted", "ReturnedFalse"}

\* The pair examined by the latest pass.
PassPair == [sql |-> lastPass[1].sql, params |-> lastPass[1].params]

(***************************************************************************)
(* Properties.                                                             *)
(***************************************************************************)

\* C1: the pair handed to the repository and returned as `sql` is the pair
\* that received the safe verdict; after an unsafe first pass and a safe
\* correction it is the pair of the correction, never the rejected one.
C1_ExecutesAcceptedPair ==
  /\ \A i \in 1..Len(executed) :
       /\ lastPass # <<>>
       /\ lastPass[1].verdict.safe
       /\ executed[i] = PassPair
  /\ (response # <<>> /\ response[1].status = 200
        => lastPass # <<>> /\ response[1].sql = lastPass[1].sql)

\* C2: every pair a pass accepts has as many placeholders as params; a pair
\* with another number of placeholders than params is judged unsafe with a
\* placeholder/parameter mismatch (and so a correction is requested).
C2_AcceptedArity ==
  lastPass # <<>> =>
    /\ (lastPass[1].verdict.safe
          => PlaceholderCount(lastPass[1].sql) = Len(lastPass[1].params))
    /\ (PlaceholderCount(lastPass[1].sql) # Len(lastPass[1].params)
          => /\ ~lastPass[1].verdict.safe
             /\ lastPass[1].verdict.reason = "PlaceholderParamMismatch")

\* C3: a template that holds a dangerous keyword as a whole token (bounded
\* by any non-word character or by an end of the text) is judged unsafe with
\* the forbidden-keyword reason naming that keyword.
C3_ForbiddenKeywordRejected ==
  lastPass # <<>> =>
    \A k \in 1..Len(dangerous_keywords) :
      HasWholeToken(lastPass[1].sql, dangerous_keywords[k]) =>
        /\ ~lastPass[1].verdict.safe
        /\ lastPass[1].verdict.reason = "Dangerous SQL keyword detected"
        /\ lastPass[1].verdict.keyword = dangerous_keywords[k]

\* C4: when the repair loop ends in Exhausted, exactly max_retries
\* correction calls were made in that run.
C4_ExhaustedAfterMaxRetries ==
  loop = "Exhausted" => fixCalls = max_retries

\* C5: one run of the repair loop never issues more than max_retries
\* correction calls.
C5_CorrectionCallsBounded == fixCalls <= max_retries

C5_Witness == loop = "Exhausted" /\ fixCalls = max_retries - 1

\* C6: the repository is invoked only after the loop ended in Succeeded;
\* with max_retries consecutive unsafe verdicts the loop is Exhausted, the
\* request fails with the exhaustion error and no query is executed.
C6_SearchOnlyAfterSucceeded ==
  /\ (executed # <<>> => loop = "Succeeded")
  /\ (pc = "search" => loop = "Succeeded")
  /\ (unsafeCount = max_retries =>
        /\ loop = "Exhausted"
        /\ executed = <<>>
        /\ pc = "done"
        /\ response # <<>>
        /\ response[1].status = 400
        /\ response[1].detail = "SQL validation failed")

C6_Witness ==
  unsafeCount = max_retries /\ loop = "Exhausted" /\ executed = <<>> /\ pc = "done"

\* C7: a template that holds a `;` anywhere is never judged safe, and the
\* reason reported for it is MultipleStatements, not a forbidden keyword.
C7_SemicolonRejected ==
  lastPass # <<>> /\ HasSemicolon(lastPass[1].sql) =>
    /\ ~lastPass[1].verdict.safe
    /\ lastPass[1].verdict.reason = "MultipleStatements"

\* C8: a template that holds a comment marker (--, /*, */) anywhere is
\* never judged safe (reason CommentInjection) and is never executed.
C8_CommentRejected ==
  /\ (lastPass # <<>> /\ HasCommentMarker(lastPass[1].sql) =>
        /\ ~lastPass[1].verdict.safe
        /\ lastPass[1].verdict.reason = "CommentInjection")
  /\ \A i \in 1..Len(executed) : ~HasCommentMarker(executed[i].sql)

\* C9: one request issues at most max_retries + 1 calls to the generator
\* (the generation call and every correction call), one at a time: a call
\* starts only when none is in flight.
C9_GeneratorCallsBounded ==
  /\ llmCalls <= max_retries + 1
  /\ inflight <= 1

C9_Witness == pc = "fixing" /\ inflight = 1 /\ llmCalls = max_retries

HasMarker(text) ==
  Contains(text, <<"Y", "O", "U", "R", " ", "R", "E", "S", "P", "O", "N", "S", "E">>) \/ Contains(text, <<"U", "s", "e", "r", " ", "q", "u", "e", "r", "y", ":">>)

\* The offset of the last occurrence of the marker that applies:
\* 'YOUR RESPONSE', otherwise 'User query:'.
LastMarkerOffset(text) ==
  IF Contains(text, <<"Y", "O", "U", "R", " ", "R", "E", "S", "P", "O", "N", "S", "E">>) THEN RFind(text, <<"Y", "O", "U", "R", " ", "R", "E", "S", "P", "O", "N", "S", "E">>)
  ELSE RFind(text, <<"U", "s", "e", "r", " ", "q", "u", "e", "r", "y", ":">>)

\* The candidate blocks whose trimmed content begins with `[`.
BracketBlocks ==
  {i \in 1..Len(response_blocks) :
     StartsWith(Strip(response_blocks[i].content), <<"[">>)}

\* The single repair pass: trailing commas and whitespace are stripped.
RepairOnce(content) == RStripSet(content, Whitespace \cup {","})

\* C12: whenever the text holds a boundary marker, every block the
\* parameters and the WHERE fragment were resolved from starts after the
\* last occurrence of the marker.
C12_OnlyBlocksAfterMarker ==
  (/\ parse_pc = "done"
   /\ parsed[1].error = ""
   /\ HasMarker(RawOf(pieces)))
  => \A i \in 1..Len(response_blocks) :
       ~(response_blocks[i].start < LastMarkerOffset(RawOf(pieces)))

\* C20: the parameters are those of the first candidate block that begins
\* with `[`, when it parses as a JSON array directly or after the single
\* repair pass, whatever a later block holds.
C20_FirstBracketBlockWins ==
  (parse_pc \in {"where", "done"} /\ BracketBlocks # {})
  => LET first == CHOOSE i \in BracketBlocks : \A j \in BracketBlocks : i <= j
         content == response_blocks[first].content
         direct == JsonLoads(content)
         repaired == JsonLoads(RepairOnce(content))
     IN (direct.ok \/ repaired.ok)
        => /\ params_block.found
           /\ params_block.params =
                IF direct.ok THEN direct.value ELSE repaired.value

(***************************************************************************)
(* Vocabulary of the properties of the failures.                           *)
(***************************************************************************)
\* The text holds a fenced block: two fences that do not overlap.
HasFencedBlock(text) ==
  \E i, j \in 0..Len(text) :
    OccursAt(text, Fence, i) /\ OccursAt(text, Fence, j) /\ j >= i + 3

NoBlocksFound == "LLM response missing code blocks"

GenericDetail == "Failed to process search request. Check server logs."

OnlyWhitespace(q) == \A i \in 1..Len(q) : q[i] \in Whitespace

\* A correction call that failed: no answer, or an answer with no parse.
CorrectionFailed(text) ==
  text = NoResponse \/ ParseResponseText(Strip(text)).error # ""

\* C13: an initial answer with no fenced block fails with the no-blocks
\* error and the failure reaches the caller at once: no correction call, no
\* validation pass, no query executed.
C13_NoBlocksSurfacesAtOnce ==
  [][ (/\ pc = "generating"
       /\ response_text' # NoResponse
       /\ ~HasFencedBlock(response_text'))
      => /\ raised' # <<>>
         /\ raised'[1].cause = NoBlocksFound
         /\ response' # <<>>
         /\ pc' = "done"
         /\ fixCalls' = 0
         /\ passCount' = 0
         /\ executed' = <<>> ]_vars

C13_Witness ==
  /\ pc = "done"
  /\ raised # <<>>
  /\ raised[1].cause = NoBlocksFound
  /\ response # <<>>
  /\ llmCalls = 1

\* C14: retry exhaustion is answered 400 with no SQL in the answer, a
\* generator that cannot be reached is answered 500 with the generic
\* message, and neither is answered with the class of the other.
C14_FailureClassesDistinct ==
  (response # <<>> /\ raised # <<>>)
  => /\ loop = "Exhausted"
        => /\ response[1].status = 400
           /\ response[1].sql = <<>>
           /\ ~Contains(response[1].keyword, lastPass[1].sql)
     /\ raised[1].msg = "Failed to connect to Ollama"
        => /\ response[1].status = 500
           /\ response[1].detail = GenericDetail
           /\ response[1].reason = ""
           /\ response[1].keyword = <<>>
           /\ response[1].sql = <<>>
           /\ loop # "Exhausted"

C14_Witness ==
  /\ loop = "Exhausted"
  /\ response # <<>>
  /\ response[1].status = 400
  /\ response_text = NoResponse

\* C15: an initial answer that arrives and cannot be parsed makes
\* generate_sql_with_params fail with ValueError, answered 400.
C15_ParseFailureIsValueError ==
  (/\ pc = "done"
   /\ raised # <<>>
   /\ loop = "none"
   /\ llmCalls = 1
   /\ response_text # NoResponse)
  => /\ raised[1].type = "ValueError"
     /\ response[1].status = 400

\* C16: a query that is empty or only whitespace is rejected with a 4xx
\* answer (the ValueError of execute() as 400) before any generator call,
\* validation pass or query execution.
C16_EmptyQueryRejectedFirst ==
  (pc # "idle" /\ OnlyWhitespace(query))
  => /\ pc = "done"
     /\ response # <<>>
     /\ response[1].status \in 400..499
     /\ Len(query) >= 1
        => /\ raised # <<>>
           /\ raised[1].type = "ValueError"
           /\ response[1].status = 400
     /\ llmCalls = 0
     /\ passCount = 0
     /\ executed = <<>>

C16_Witness ==
  /\ pc = "done"
  /\ Len(query) >= 1
  /\ OnlyWhitespace(query)
  /\ response[1].status = 400

\* C17: a correction call that fails on a non-final attempt leaves the
\* current template and params as they are and the loop goes to its next
\* validation attempt, with no success and no answer; on the final attempt
\* the loop ends in Exhausted.
C17_LoopContinuesAfterFailure ==
  [][ (pc = "fixing" /\ pc' # "fixing" /\ CorrectionFailed(response_text'))
      => IF attempt < max_retries - 1
         THEN /\ pc' = "validate"
              /\ loop' = "Validating"
              /\ current_sql' = current_sql
              /\ current_params' = current_params
              /\ attempt' = attempt + 1
              /\ response' = <<>>
         ELSE loop' = "Exhausted" ]_vars

C17_Witness ==
  /\ pc = "validate"
  /\ attempt = max_retries - 1
  /\ response_text = NoResponse
  /\ current_sql = sql_template

\* C18: when every generator call returns or fails, a started repair loop
\* reaches Succeeded or Exhausted, and after that it is never Validating
\* again.
C18_LoopTerminates ==
  /\ (loop \in {"Validating", "Repairing"}) ~> (loop \in {"Succeeded", "Exhausted"})
  /\ [][(loop \in {"Succeeded", "Exhausted"}) => (loop' \in {loop, "none"})]_vars

C18_Witness == loop = "Succeeded" /\ attempt = max_retries - 1

\* C19: after a safe pass the run makes no further correction call and no
\* further pass, and a template that is safe on the first pass causes no
\* correction call.
C19_StopsAtFirstSafe ==
  /\ [][ (lastPass # <<>> /\ lastPass[1].verdict.safe /\ pc' # "idle")
         => (passCount' = passCount /\ fixCalls' = fixCalls) ]_vars
  /\ []((firstPass # <<>> /\ firstPass[1].safe) => fixCalls = 0)

C19_Witness ==
  /\ pc = "done"
  /\ loop = "Succeeded"
  /\ passCount = 2
  /\ fixCalls = 1

MaxRequests == 3

\* settings.API_PREFIX + the prefix of the search router
SearchPath == "/api/search"

Paths == {"/health", "/ready", SearchPath}

\* What the use case can make the search route answer.
SearchAnswers == {200, 400, 422, 500}

\* service_container: ServiceContainer | None = None
declare_service_container ==
  /\ import_pc = "start"
  /\ service_container' = "None"
  /\ import_pc' = "declared"
  /\ UNCHANGED << routes, lifespan_pc, db_connected, served >>
  /\ UNCHANGED << requestVars, last_query, parseVars, taskVars >>

\* app = FastAPI(..., lifespan=lifespan), the middleware, and the two
\* decorated endpoints /health and /ready.  lifespan is only handed over.
create_app ==
  /\ import_pc = "declared"
  /\ routes' = {"/health", "/ready"}
  /\ import_pc' = "app_created"
  /\ UNCHANGED << service_container, lifespan_pc, db_connected, served >>
  /\ UNCHANGED << requestVars, last_query, parseVars, taskVars >>

\* if service_container: (a ServiceContainer is truthy, None is not)
ContainerInitialised(c) == c = "ServiceContainer"

\* "Include routers": the if statement at the end of the module.
include_routers ==
  /\ import_pc = "app_created"
  /\ routes' = IF ContainerInitialised(service_container)
                THEN routes \cup {SearchPath}
                ELSE routes
  /\ import_pc' = "imported"
  /\ UNCHANGED << service_container, lifespan_pc, db_connected, served >>
  /\ UNCHANGED << requestVars, last_query, parseVars, taskVars >>

\* The startup phase of lifespan, run by the server on the imported app:
\* db_connection.connect() (which may raise), the adapters, the container,
\* and the assignment to the global.
lifespan_startup(connects) ==
  /\ import_pc = "imported"
  /\ lifespan_pc = "not_started"
  /\ IF connects
     THEN /\ db_connected' = TRUE
          /\ service_container' = "ServiceContainer"
          /\ lifespan_pc' = "started"
     ELSE /\ lifespan_pc' = "failed"
          /\ UNCHANGED << db_connected, service_container >>
  /\ UNCHANGED << import_pc, routes, served >>
  /\ UNCHANGED << requestVars, last_query, parseVars, taskVars >>

\* The answer of the application to a request on path: 404 when no route
\* is registered for it, else what the endpoint returns.
StatusOf(path, answer) ==
  IF path \notin routes THEN 404
  ELSE IF path = "/health" THEN (IF db_connected THEN 200 ELSE 503)
  ELSE IF path = "/ready" THEN 200
  ELSE answer

handle_request(path, answer) ==
  /\ lifespan_pc = "started"
  /\ Len(served) < MaxRequests
  /\ served' = Append(served, [path |-> path, status |-> StatusOf(path, answer)])
  /\ UNCHANGED << import_pc, service_container, routes, lifespan_pc, db_connected >>
  /\ UNCHANGED << requestVars, last_query, parseVars, taskVars >>

\* The MySQL connection drops; nothing in the code reconnects.
connection_lost ==
  /\ lifespan_pc = "started"
  /\ db_connected
  /\ db_connected' = FALSE
  /\ UNCHANGED << import_pc, service_container, routes, lifespan_pc, served >>
  /\ UNCHANGED << requestVars, last_query, parseVars, taskVars >>

\* The shutdown phase of lifespan: db_connection.disconnect().
lifespan_shutdown ==
  /\ lifespan_pc = "started"
  /\ lifespan_pc' = "stopped"
  /\ db_connected' = FALSE
  /\ UNCHANGED << import_pc, service_container, routes, served >>
  /\ UNCHANGED << requestVars, last_query, parseVars, taskVars >>

NextApp ==
  \/ declare_service_container
  \/ create_app
  \/ include_routers
  \/ \E connects \in BOOLEAN : lifespan_startup(connects)
  \/ \E path \in Paths, answer \in SearchAnswers : handle_request(path, answer)
  \/ connection_lost
  \/ lifespan_shutdown

SpecApp == Init /\ [][NextApp]_vars

FragmentOf(sql) == Slice(sql, Len(SkeletonHead), Len(sql) - Len(SkeletonTail))

\* The candidate blocks other than the params block.
NonParamBlocks == {i \in 1..Len(response_blocks) : i - 1 # params_block.idx}

\* A full statement: SELECT, FROM and WHERE all occur, in any case.
IsFullStatement(text) ==
  \A w \in {<<"S", "E", "L", "E", "C", "T">>, <<"F", "R", "O", "M">>, <<"W", "H", "E", "R", "E">>} : Contains(Upper(text), w)

FullStatementBlocks ==
  {i \in NonParamBlocks : IsFullStatement(response_blocks[i].content)}

\* A block that one of the rules 1 to 3 applies to.
MatchesSomeRule(text) ==
  \/ IsFullStatement(text)
  \/ is_only_where_clause(text)
  \/ Contains(Upper(text), <<"W", "H", "E", "R", "E">>)

\* The offsets at which GROUP BY, ORDER BY or LIMIT stands, in any case.
ClauseOffsets(text) ==
  {k \in 0..Len(text) :
     \E w \in {<<"G", "R", "O", "U", "P", " ", "B", "Y">>, <<"O", "R", "D", "E", "R", " ", "B", "Y">>, <<"L", "I", "M", "I", "T">>} : OccursAt(Upper(text), w, k)}

\* The text between the first WHERE and the earliest clause keyword after
\* it (the end of the text when there is none), trimmed.
TextAfterWhere(text) ==
  LET first == Find(Upper(text), <<"W", "H", "E", "R", "E">>, 0)
      stops == {k \in ClauseOffsets(text) : k >= first + 5} \cup {Len(text)}
      stop == CHOOSE k \in stops : \A j \in stops : k <= j
  IN Strip(Slice(text, first + 5, stop))

\* C21: when a block other than the params block is a full statement, the
\* fragment is taken from a full-statement block, even when a fragment-only
\* block stands before it; and the last-resort rule resolves the fragment
\* only when no block matches one of the rules 1 to 3.
C21_FullStatementPreferred ==
  (parse_pc = "done" /\ parsed[1].error = "")
  => /\ (FullStatementBlocks # {} => (parsed[1].idx + 1) \in FullStatementBlocks)
     /\ (parsed[1].rule = "last resort"
           => \A i \in NonParamBlocks : ~MatchesSomeRule(response_blocks[i].content))

\* C22: a fragment resolved from a full statement is the text between the
\* first WHERE and the earliest following GROUP BY, ORDER BY, LIMIT or end
\* of the block; the block `SELECT * FROM propiedades WHERE precio < %s`
\* with the params block `[500000]` gives the fragment `precio < %s`, the
\* params [500000] and a safe verdict.
C22_FullStatementFragment ==
  /\ (parse_pc = "done" /\ parsed[1].error = "" /\ parsed[1].rule = "full statement")
       => FragmentOf(parsed[1].sql)
            = TextAfterWhere(response_blocks[parsed[1].idx + 1].content)
  /\ (parse_pc = "done" /\ pieces = <<"FX", "P5">>)
       => /\ parsed[1].error = ""
          /\ parsed[1].rule = "full statement"
          /\ FragmentOf(parsed[1].sql) = <<"p", "r", "e", "c", "i", "o", " ", "<", " ", "%", "s">>
          /\ parsed[1].params = <<500000>>
          /\ ValidationPass(parsed[1].sql, parsed[1].params).safe

C22_Witness ==
  /\ parse_pc = "done"
  /\ pieces = <<"FX", "P5">>
  /\ parsed[1].error = ""

(***************************************************************************)
(* Properties of the outcomes of validate_sql_template.                    *)
(***************************************************************************)
FailedValidation == "Generated SQL template failed validation"

OnlySelect == "Only SELECT queries are allowed"

\* C23: validate_sql_template never returns False: a run that ended either
\* returned True or raised ValueError, after at most max_retries passes,
\* and the use case never raises its own "failed validation" error.
C23_NeverReturnsFalse ==
  /\ loop # "ReturnedFalse"
  /\ passCount <= max_retries
  /\ (loop \in Terminal /\ loop # "Succeeded"
        => raised # <<>> /\ raised[1].type = "ValueError")
  /\ (raised # <<>> => raised[1].msg # FailedValidation)
  /\ (response # <<>> => response[1].detail # FailedValidation)

C23_Witness ==
  /\ pc = "done"
  /\ loop = "Exhausted"
  /\ passCount = max_retries
  /\ raised[1].type = "ValueError"

\* C24: every template a pass examines, the initial one and every
\* correction, is the skeleton around a fragment and begins with SELECT,
\* and no pass gives the "only SELECT" verdict.
C24_AlwaysSelect ==
  /\ (lastPass # <<>>
        => /\ StartsWith(lastPass[1].sql, SkeletonHead)
           /\ EndsWith(lastPass[1].sql, SkeletonTail)
           /\ StartsWith(Upper(Strip(lastPass[1].sql)), <<"S", "E", "L", "E", "C", "T">>)
           /\ lastPass[1].verdict.reason # OnlySelect)
  /\ (current_sql # <<>> => StartsWith(current_sql, SkeletonHead))
  /\ (sql_template # <<>> => StartsWith(sql_template, SkeletonHead))

C24_Witness ==
  /\ lastPass # <<>>
  /\ fixCalls = 2
  /\ ~(lastPass[1].sql = sql_template)
  /\ ~lastPass[1].verdict.safe

====
